---- MODULE Spec2Model ----
(***************************************************************************)
(* Model of the disk panel renderer of zenith, src/renderer/disk.rs:       *)
(* render_disk, disk_activity_histogram and disk_usage.                    *)
(*                                                                         *)
(* The state is the metrics snapshot the renderer borrows (app), the       *)
(* display state owned by the input handling (file_system_index,           *)
(* file_system_display) and the frame the last call of render_disk drew.   *)
(* A frame has four regions the code renders widgets into: the selector    *)
(* list (disk_layout[0]), the two rows of the detail pane (area[0],        *)
(* area[1]) and the two text columns that disk_usage splits area[1] into.  *)
(*                                                                         *)
(* Not modelled: the geometry of the regions and the pane border drawn by  *)
(* split_left_right_pane; the view, which the renderer only hands to the   *)
(* history store (histogram_map holds the store's answer for the call's    *)
(* view); the f32 rounding of the percentages, which are kept exact in     *)
(* tenths of a percent.                                                    *)
(***************************************************************************)
EXTENDS Integers, Sequences, FiniteSets

VARIABLES app, file_system_index, file_system_display, frame, stale

vars == <<app, file_system_index, file_system_display, frame, stale>>

(***************************************************************************)
(* Bounds of the model.                                                    *)
(***************************************************************************)
MaxDisks == 2

MaxLen == 2

(***************************************************************************)
(* Option<T>.                                                              *)
(***************************************************************************)
None == [some |-> FALSE]

Some(x) == [some |-> TRUE, value |-> x]

SeqsUpTo(S, n) == UNION {[1..k -> S] : k \in 0..n}

(***************************************************************************)
(* The snapshot: disks, the history store, the process table.              *)
(***************************************************************************)
Devices ==
    { [name |-> "sda", mount_point |-> "/", file_system |-> "ext4",
       size_bytes |-> 1000, available_bytes |-> 50],
      [name |-> "sdb", mount_point |-> "/home", file_system |-> "xfs",
       size_bytes |-> 1000, available_bytes |-> 900],
      [name |-> "sdc", mount_point |-> "/boot", file_system |-> "vfat",
       size_bytes |-> 2000, available_bytes |-> 200] }

DeviceNames == {d.name : d \in Devices}

DiskLists == SeqsUpTo(Devices, MaxDisks)

DeviceNamed(n) == CHOOSE d \in Devices : d.name = n

\* HistogramKind: IoRead, IoWrite, FileSystemUsedSpace(name).
IoRead == <<"IoRead">>

IoWrite == <<"IoWrite">>

FileSystemUsedSpace(name) == <<"FileSystemUsedSpace", name>>

HistogramKinds == {IoRead, IoWrite} \cup {FileSystemUsedSpace(n) : n \in DeviceNames}

\* Samples of the I/O series, in bytes per second.
Samples == {0, 50}

IoWindows == {None} \cup {Some(s) : s \in SeqsUpTo(Samples, MaxLen)}

\* The used-space history of a file system; a view shows a window of it.
UsedHistory == <<100, 200, 150, 120>>

UsedWindows == {None} \cup {Some(SubSeq(UsedHistory, 1, k)) : k \in 0..MaxLen}

Processes ==
    [p \in {42, 43} |->
        IF p = 42 THEN [pid |-> 42, name |-> "proc", user_name |-> "u"]
                  ELSE [pid |-> 43, name |-> "sync", user_name |-> "root"]]

\* 7 is the id of a process that has exited.
TopPids == {None, Some(42), Some(7)}

RatePairs == {<<0, 0>>, <<64, 8>>}

(***************************************************************************)
(* Collaborators of the renderer: the disk's derived figures, the byte     *)
(* formatter, the history store's lookup and the process table's lookup.   *)
(***************************************************************************)
\* percent_free = available_bytes / size_bytes * 100, in tenths of a percent
\* (50 of 1000 bytes free is 5.0 %, the value 50).
get_perc_free_space(d) == (d.available_bytes * 1000) \div d.size_bytes

get_perc_used_space(d) == 1000 - get_perc_free_space(d)

get_used_bytes(d) == d.size_bytes - d.available_bytes

\* A byte count as a human-readable string: the magnitude in the largest unit
\* that keeps it at or above 1, and the unit.
float_to_byte_string(x) ==
    IF x < 1024 THEN [magnitude |-> x, unit |-> "B"]
    ELSE IF x < 1024 * 1024 THEN [magnitude |-> x \div 1024, unit |-> "KB"]
    ELSE [magnitude |-> x \div (1024 * 1024), unit |-> "MB"]

\* lookup(series_kind, view): the window of the series for the call's view, or
\* absent for a kind the store does not track.
get_zoomed(histogram_map, kind) ==
    IF kind \in DOMAIN histogram_map THEN histogram_map[kind] ELSE None

\* lookup(process_id)
process_map_get(process_map, pid) ==
    IF pid \in DOMAIN process_map THEN Some(process_map[pid]) ELSE None

(***************************************************************************)
(* Formatting and widgets.                                                 *)
(***************************************************************************)
\* "{:3.0}" of a percentage given in tenths: rounded to a whole number, a tie
\* to the even neighbour.
format_3_0(tenths) ==
    LET q == tenths \div 10
        r == tenths % 10
    IN  IF r < 5 THEN q
        ELSE IF r > 5 THEN q + 1
        ELSE IF q % 2 = 0 THEN q ELSE q + 1

\* data().iter().max()
iter_max(data) ==
    IF data = <<>> THEN None
    ELSE Some(CHOOSE m \in {data[i] : i \in 1..Len(data)} :
                 \A i \in 1..Len(data) : data[i] <= m)

NoWidget == [widget |-> "None"]

Sparkline(title, data, fg, max) ==
    [widget |-> "Sparkline", title |-> title, data |-> data, fg |-> fg, max |-> max]

Paragraph(text) == [widget |-> "Paragraph", text |-> text]

List(items) == [widget |-> "List", items |-> items]

\* The frame a draw starts from: nothing rendered in any region.
ClearedFrame ==
    [list |-> NoWidget, area0 |-> NoWidget, area1 |-> NoWidget,
     columns0 |-> NoWidget, columns1 |-> NoWidget]

(***************************************************************************)
(* disk_activity_histogram                                                 *)
(***************************************************************************)
read_max(h_read) ==
    LET m == iter_max(h_read) IN IF m.some THEN m.value ELSE 1

\* format!("[{:} - {:} - {:}]", p.pid, p.name, p.user_name), or the empty string.
top_reader(a) ==
    IF a.top_disk_reader_pid.some
    THEN LET p == process_map_get(a.process_map, a.top_disk_reader_pid.value)
         IN  IF p.some
             THEN <<"[", p.value.pid, " - ", p.value.name, " - ", p.value.user_name, "]">>
             ELSE <<>>
    ELSE <<>>

write_max(h_write) ==
    LET m == iter_max(h_write) IN IF m.some THEN m.value ELSE 1

\* Variant: the write strip's label resolved from the top reader's id.
top_writer_of_reader(a) ==
    IF a.top_disk_reader_pid.some
    THEN LET p == process_map_get(a.process_map, a.top_disk_reader_pid.value)
         IN  IF p.some
             THEN <<"[", p.value.pid, " - ", p.value.name, " - ", p.value.user_name, "]">>
             ELSE <<>>
    ELSE <<>>

top_writer(a) ==
    IF a.top_disk_writer_pid.some
    THEN LET p == process_map_get(a.process_map, a.top_disk_writer_pid.value)
         IN  IF p.some
             THEN <<"[", p.value.pid, " - ", p.value.name, " - ", p.value.user_name, "]">>
             ELSE <<>>
    ELSE <<>>

\* The title "R [rate/s] Max [peak/s] label" (dir "R") or "W [...] ..." (dir "W").
ActivityTitle(dir, rate, peak, label) ==
    [dir |-> dir, rate |-> rate, peak |-> peak, top |-> label]

\* Variant: the read strip is rendered before the write series is looked up.
disk_activity_histogram_partial(a, f) ==
    LET read_up == float_to_byte_string(a.disk_read)
        h_read  == get_zoomed(a.histogram_map, IoRead)
    IN  IF ~h_read.some THEN f
        ELSE
        LET read_max_bytes == float_to_byte_string(read_max(h_read.value))
            write_down == float_to_byte_string(a.disk_write)
            h_write == get_zoomed(a.histogram_map, IoWrite)
            f0 == [f EXCEPT
                    !.area0 = Sparkline(
                        ActivityTitle("R", read_up, read_max_bytes, top_reader(a)),
                        h_read.value, "LightYellow", read_max(h_read.value))]
        IN  IF ~h_write.some THEN f0
            ELSE
            LET write_max_bytes == float_to_byte_string(write_max(h_write.value))
            IN  [f0 EXCEPT
                  !.area1 = Sparkline(
                      ActivityTitle("W", write_down, write_max_bytes, top_writer(a)),
                      h_write.value, "LightMagenta", write_max(h_write.value))]

\* Variant: the write strip is scaled and labelled with the read series' maximum.
disk_activity_histogram_shared_max(a, f) ==
    LET read_up == float_to_byte_string(a.disk_read)
        h_read  == get_zoomed(a.histogram_map, IoRead)
    IN  IF ~h_read.some THEN f
        ELSE
        LET read_max_bytes == float_to_byte_string(read_max(h_read.value))
            write_down == float_to_byte_string(a.disk_write)
            h_write == get_zoomed(a.histogram_map, IoWrite)
        IN  IF ~h_write.some THEN f
            ELSE
            [f EXCEPT
              !.area0 = Sparkline(
                  ActivityTitle("R", read_up, read_max_bytes, top_reader(a)),
                  h_read.value, "LightYellow", read_max(h_read.value)),
              !.area1 = Sparkline(
                  ActivityTitle("W", write_down, read_max_bytes, top_writer(a)),
                  h_write.value, "LightMagenta", read_max(h_read.value))]

disk_activity_histogram(a, f) ==
    LET read_up == float_to_byte_string(a.disk_read)
        h_read  == get_zoomed(a.histogram_map, IoRead)
    IN  IF ~h_read.some THEN f
        ELSE
        LET read_max_bytes == float_to_byte_string(read_max(h_read.value))
            write_down == float_to_byte_string(a.disk_write)
            h_write == get_zoomed(a.histogram_map, IoWrite)
        IN  IF ~h_write.some THEN f
            ELSE
            LET write_max_bytes == float_to_byte_string(write_max(h_write.value))
            IN  [f EXCEPT
                  !.area0 = Sparkline(
                      ActivityTitle("R", read_up, read_max_bytes, top_reader(a)),
                      h_read.value, "LightYellow", read_max(h_read.value)),
                  !.area1 = Sparkline(
                      ActivityTitle("W", write_down, write_max_bytes, top_writer(a)),
                      h_write.value, "LightMagenta", write_max(h_write.value))]

(***************************************************************************)
(* disk_usage                                                              *)
(***************************************************************************)
\* app.disks.get(index): the index counts from 0.
disks_get(disks, index) ==
    IF index < Len(disks) THEN Some(disks[index + 1]) ELSE None

\* "name  Used [used (x.x%)] Free [free (x.x%)] Size [size]"
UsageTitle(name, used, perc_used, free, perc_free, size) ==
    [name |-> name, used |-> used, perc_used |-> perc_used,
     free |-> free, perc_free |-> perc_free, size |-> size]

\* The widgets disk_usage renders for the file system fs and its window h_used,
\* the strip scaled to max.
UsageWidgets(f, fs, h_used, max) ==
    LET free == float_to_byte_string(fs.available_bytes)
        used == float_to_byte_string(get_used_bytes(fs))
        size == float_to_byte_string(fs.size_bytes)
    IN  [f EXCEPT
          !.area0 = Sparkline(
              UsageTitle(fs.name, used, get_perc_used_space(fs),
                         free, get_perc_free_space(fs), size),
              h_used, "LightYellow", max),
          !.columns0 = Paragraph(
              << <<"Name:", fs.name>>,
                 <<"File System", fs.file_system>>,
                 <<"Mount Point:", fs.mount_point>> >>),
          !.columns1 = Paragraph(
              << <<"Size:", size>>, <<"Used", used>>, <<"Free:", free>> >>)]

\* Variant: an empty window is treated like an absent one.
disk_usage_skip_empty(a, f, index) ==
    LET sel == disks_get(a.disks, index)
    IN  IF ~sel.some THEN f
        ELSE
        LET h_used == get_zoomed(a.histogram_map, FileSystemUsedSpace(sel.value.name))
        IN  IF ~h_used.some \/ h_used.value = <<>> THEN f
            ELSE UsageWidgets(f, sel.value, h_used.value, sel.value.size_bytes)

\* Variant: the strip is scaled to the window's own maximum.
disk_usage_local_max(a, f, index) ==
    LET sel == disks_get(a.disks, index)
    IN  IF ~sel.some THEN f
        ELSE
        LET h_used == get_zoomed(a.histogram_map, FileSystemUsedSpace(sel.value.name))
        IN  IF ~h_used.some THEN f
            ELSE UsageWidgets(f, sel.value, h_used.value, read_max(h_used.value))

disk_usage(a, f, index) ==
    LET sel == disks_get(a.disks, index)
    IN  IF ~sel.some THEN f
        ELSE
        LET fs == sel.value
            h_used == get_zoomed(a.histogram_map, FileSystemUsedSpace(fs.name))
        IN  IF ~h_used.some THEN f
            ELSE UsageWidgets(f, fs, h_used.value, fs.size_bytes)

(***************************************************************************)
(* render_disk                                                             *)
(***************************************************************************)
AlertThreshold == 10

\* Style::default().fg(Red).add_modifier(BOLD) or Style::default().fg(Green)
style(d) ==
    IF get_perc_free_space(d) < AlertThreshold * 10
    THEN [fg |-> "Red", bold |-> TRUE]
    ELSE [fg |-> "Green", bold |-> FALSE]

\* The span of the disk at position i (from 0) of the list: the marker or a
\* space, "{:3.0}%: {}" of the free percentage and the mount point, styled.
\* Variant: the selected entry is drawn in the healthy style whatever its free space.
disks_span_selected_plain(i, d, index) ==
    IF index = i
    THEN [marker |-> "→", perc |-> format_3_0(get_perc_free_space(d)),
          mount_point |-> d.mount_point, style |-> [fg |-> "Green", bold |-> FALSE]]
    ELSE [marker |-> " ", perc |-> format_3_0(get_perc_free_space(d)),
          mount_point |-> d.mount_point, style |-> style(d)]

\* Variant: the selected index is compared with the entry's position from 1.
disks_span_from_one(i, d, index) ==
    IF index = i + 1
    THEN [marker |-> "→", perc |-> format_3_0(get_perc_free_space(d)),
          mount_point |-> d.mount_point, style |-> style(d)]
    ELSE [marker |-> " ", perc |-> format_3_0(get_perc_free_space(d)),
          mount_point |-> d.mount_point, style |-> style(d)]

disks_span(i, d, index) ==
    IF index = i
    THEN [marker |-> "→", perc |-> format_3_0(get_perc_free_space(d)),
          mount_point |-> d.mount_point, style |-> style(d)]
    ELSE [marker |-> " ", perc |-> format_3_0(get_perc_free_space(d)),
          mount_point |-> d.mount_point, style |-> style(d)]

\* Variant: disk_usage runs after the branch on the display mode, not in its else.
render_disk_no_else(a, f, index, display) ==
    LET f0 == IF display = "Activity" THEN disk_activity_histogram(a, f) ELSE f
        f1 == disk_usage(a, f0, index)
        disks == [k \in 1..Len(a.disks) |-> disks_span(k - 1, a.disks[k], index)]
    IN  [f1 EXCEPT !.list = List(disks)]

render_disk(a, f, index, display) ==
    LET f1 == IF display = "Activity"
              THEN disk_activity_histogram(a, f)
              ELSE disk_usage(a, f, index)
        disks == [k \in 1..Len(a.disks) |-> disks_span(k - 1, a.disks[k], index)]
    IN  [f1 EXCEPT !.list = List(disks)]

(***************************************************************************)
(* The state machine.  A behaviour starts from one snapshot and a frame on *)
(* which nothing was drawn; the input handling changes the display state   *)
(* between draws, and every draw is one call of render_disk on a cleared   *)
(* frame.  stale records that the display state changed since the frame    *)
(* was drawn.                                                              *)
(***************************************************************************)
App(disks, histogram_map, reader, writer, rates) ==
    [disks |-> disks, histogram_map |-> histogram_map, process_map |-> Processes,
     top_disk_reader_pid |-> reader, top_disk_writer_pid |-> writer,
     disk_read |-> rates[1], disk_write |-> rates[2]]

HistogramMap(read, write, used) ==
    [k \in HistogramKinds |->
        IF k = IoRead THEN read
        ELSE IF k = IoWrite THEN write
        ELSE used[k[2]]]

\* Snapshots that vary the I/O series and the top processes.
ActivitySnapshots ==
    { App(<<DeviceNamed("sda"), DeviceNamed("sdb")>>,
          HistogramMap(r, w, [n \in DeviceNames |->
                                 IF n = "sda" THEN Some(<<100, 200>>) ELSE None]),
          tr, tw, rates) :
        r \in IoWindows, w \in IoWindows, tr \in TopPids, tw \in TopPids,
        rates \in RatePairs }

\* Snapshots that vary the disk list and the used-space histories.
UsageSnapshots ==
    { App(ds, HistogramMap(Some(<<5, 50>>), w, u), Some(42), None, <<64, 8>>) :
        ds \in DiskLists, w \in {None, Some(<<5>>)},
        u \in [DeviceNames -> UsedWindows] }

Init ==
    /\ app \in ActivitySnapshots \cup UsageSnapshots
    /\ file_system_index \in 0..MaxDisks
    /\ file_system_display \in {"Activity", "Usage"}
    /\ frame = ClearedFrame
    /\ stale = TRUE

RenderDisk ==
    /\ frame' = render_disk(app, ClearedFrame, file_system_index, file_system_display)
    /\ stale' = FALSE
    /\ UNCHANGED <<app, file_system_index, file_system_display>>

ToggleFileSystemDisplay ==
    /\ file_system_display' =
           IF file_system_display = "Activity" THEN "Usage" ELSE "Activity"
    /\ stale' = TRUE
    /\ UNCHANGED <<app, file_system_index, frame>>

SelectFileSystem ==
    /\ \E i \in 0..MaxDisks :
          /\ i # file_system_index
          /\ file_system_index' = i
    /\ stale' = TRUE
    /\ UNCHANGED <<app, file_system_display, frame>>

Next == RenderDisk \/ ToggleFileSystemDisplay \/ SelectFileSystem

Spec == Init /\ [][Next]_vars

(***************************************************************************)
(* Vocabulary of the properties.                                           *)
(***************************************************************************)
\* A call of render_disk has drawn the frame.
Called == frame.list.widget = "List"

Activity == file_system_display = "Activity"

Usage == file_system_display = "Usage"

InRange == file_system_index < Len(app.disks)

SelectedDisk == app.disks[file_system_index + 1]

ReadWindow == app.histogram_map[<<"IoRead">>]

WriteWindow == app.histogram_map[<<"IoWrite">>]

UsedWindow(d) == app.histogram_map[<<"FileSystemUsedSpace", d.name>>]

IsReadStrip(w) ==
    /\ w.widget = "Sparkline"
    /\ "dir" \in DOMAIN w.title
    /\ w.title.dir = "R"

IsWriteStrip(w) ==
    /\ w.widget = "Sparkline"
    /\ "dir" \in DOMAIN w.title
    /\ w.title.dir = "W"

IsUsedStrip(w) ==
    /\ w.widget = "Sparkline"
    /\ "name" \in DOMAIN w.title

NoDetail ==
    /\ frame.area0 = NoWidget
    /\ frame.area1 = NoWidget
    /\ frame.columns0 = NoWidget
    /\ frame.columns1 = NoWidget

ActivityElements == IsReadStrip(frame.area0) \/ IsWriteStrip(frame.area1)

UsageElements ==
    \/ IsUsedStrip(frame.area0)
    \/ frame.columns0 # NoWidget
    \/ frame.columns1 # NoWidget

AlertStyle == [fg |-> "Red", bold |-> TRUE]

HealthyStyle == [fg |-> "Green", bold |-> FALSE]

\* percent_free < 10.0, on the disk's byte counts
LowOnSpace(d) == d.available_bytes * 100 < 10 * d.size_bytes

StyledBySpace ==
    /\ Len(frame.list.items) = Len(app.disks)
    /\ \A k \in 1..Len(app.disks) :
          /\ frame.list.items[k].mount_point = app.disks[k].mount_point
          /\ frame.list.items[k].style =
                IF LowOnSpace(app.disks[k]) THEN AlertStyle ELSE HealthyStyle

Marked == {k \in 1..Len(frame.list.items) : frame.list.items[k].marker = "→"}

RECURSIVE SeqMax(_)
SeqMax(s) ==
    IF Len(s) = 1 THEN s[1]
    ELSE LET m == SeqMax(Tail(s)) IN IF s[1] > m THEN s[1] ELSE m

ExpectedScale(s) == IF s = <<>> THEN 1 ELSE SeqMax(s)

\* The label names the process pid resolves to, and is empty otherwise.
LabelOf(label, pid) ==
    IF pid.some /\ pid.value \in DOMAIN app.process_map
    THEN /\ Len(label) = 7
         /\ label[2] = pid.value
         /\ label[4] = app.process_map[pid.value].name
         /\ label[6] = app.process_map[pid.value].user_name
    ELSE label = <<>>

(***************************************************************************)
(* Properties.                                                             *)
(***************************************************************************)
\* C1: after every call of render_disk the selector list has one entry per
\* disk of the snapshot, in snapshot order, and an entry is alert-styled
\* (red, bold) iff the disk's percent_free < 10.0 and healthy-styled otherwise,
\* whichever entry is selected and whatever the detail renderer drew.
C1_SelectorList == Called => StyledBySpace

C1_Witness ==
    /\ ~stale
    /\ Len(app.disks) = 2
    /\ file_system_index = 0
    /\ LowOnSpace(app.disks[1])
    /\ ~LowOnSpace(app.disks[2])
    /\ frame.list.items[1].style = AlertStyle
    /\ frame.list.items[2].style = HealthyStyle
    /\ NoDetail

\* C2: entry i carries the marker iff i is the selected index, so at most one
\* entry is marked; with the selected index out of bounds no entry is marked,
\* the list is complete and styled, and Usage mode draws no detail.
C2_SelectionMarker ==
    ~stale =>
        /\ Marked = {k \in 1..Len(app.disks) : k - 1 = file_system_index}
        /\ Cardinality(Marked) <= 1
        /\ ~InRange =>
              /\ Marked = {}
              /\ StyledBySpace
              /\ Usage => NoDetail

C2_Witness ==
    /\ ~stale
    /\ Usage
    /\ Len(app.disks) = 2
    /\ file_system_index = 2
    /\ UsedWindow(app.disks[1]).some
    /\ UsedWindow(app.disks[2]).some
    /\ Marked = {}
    /\ NoDetail

\* C3: in Activity mode the read strip and the write strip are drawn exactly
\* when both lookups are present; if either is absent neither strip is drawn.
C3_BothOrNothing ==
    (~stale /\ Activity) =>
        IF ReadWindow.some /\ WriteWindow.some
        THEN IsReadStrip(frame.area0) /\ IsWriteStrip(frame.area1)
        ELSE frame.area0 = NoWidget /\ frame.area1 = NoWidget

C3_Witness ==
    /\ ~stale
    /\ Activity
    /\ ReadWindow.some
    /\ ReadWindow.value # <<>>
    /\ ~WriteWindow.some
    /\ frame.area0 = NoWidget
    /\ frame.area1 = NoWidget

\* C4: each strip's scale and peak label come from the maximum of its own
\* series, and from 1 for a present but empty series.
C4_OwnSeriesScale ==
    (~stale /\ Activity /\ ReadWindow.some /\ WriteWindow.some) =>
        /\ frame.area0.max = ExpectedScale(ReadWindow.value)
        /\ frame.area0.title.peak = float_to_byte_string(ExpectedScale(ReadWindow.value))
        /\ frame.area1.max = ExpectedScale(WriteWindow.value)
        /\ frame.area1.title.peak = float_to_byte_string(ExpectedScale(WriteWindow.value))

C4_Witness ==
    /\ ~stale
    /\ Activity
    /\ ReadWindow = Some(<<0, 50>>)
    /\ WriteWindow = Some(<<>>)
    /\ frame.area0.max = 50
    /\ frame.area1.max = 1

\* C5: every strip ActivityView draws, an all-zero series included, is given a
\* scale of at least 1.
C5_ScaleAtLeastOne ==
    (~stale /\ Activity) =>
        /\ IsReadStrip(frame.area0) => frame.area0.max >= 1
        /\ IsWriteStrip(frame.area1) => frame.area1.max >= 1

\* C6 as stated: no strip is drawn for a series whose lookup is absent or whose
\* window is empty, in ActivityView and in UsageView.
C6_EmptyOrAbsentSkipped ==
    ~stale =>
        /\ Activity =>
              /\ (~ReadWindow.some \/ ReadWindow = Some(<<>>)) => ~IsReadStrip(frame.area0)
              /\ (~WriteWindow.some \/ WriteWindow = Some(<<>>)) => ~IsWriteStrip(frame.area1)
        /\ (Usage /\ InRange) =>
              ((~UsedWindow(SelectedDisk).some \/ UsedWindow(SelectedDisk) = Some(<<>>))
                  => ~IsUsedStrip(frame.area0))

\* C6 amended: an absent lookup makes the renderer draw nothing (neither strip
\* in ActivityView, no strip in UsageView); a present window, empty or not, is
\* drawn as it is, an empty one with scale 1 in ActivityView and size_bytes in
\* UsageView, where the text columns are drawn with the strip.
C6_AbsentSkippedEmptyDrawn ==
    ~stale =>
        /\ Activity =>
              IF ReadWindow.some /\ WriteWindow.some
              THEN /\ IsReadStrip(frame.area0)
                   /\ frame.area0.data = ReadWindow.value
                   /\ ReadWindow.value = <<>> => frame.area0.max = 1
                   /\ IsWriteStrip(frame.area1)
                   /\ frame.area1.data = WriteWindow.value
                   /\ WriteWindow.value = <<>> => frame.area1.max = 1
              ELSE NoDetail
        /\ (Usage /\ InRange) =>
              IF UsedWindow(SelectedDisk).some
              THEN /\ IsUsedStrip(frame.area0)
                   /\ frame.area0.data = UsedWindow(SelectedDisk).value
                   /\ frame.area0.max = SelectedDisk.size_bytes
                   /\ frame.columns0.widget = "Paragraph"
                   /\ frame.columns1.widget = "Paragraph"
              ELSE NoDetail

C6_Witness ==
    /\ ~stale
    /\ Usage
    /\ InRange
    /\ UsedWindow(SelectedDisk) = Some(<<>>)
    /\ IsUsedStrip(frame.area0)
    /\ frame.area0.data = <<>>

\* C7: a frame never holds elements of both modes; the frame of a call holds
\* only elements of the call's mode, the read or used-space strip in row 1 and
\* the write strip or the text columns in row 2.
C7_OneRenderer ==
    /\ ~(ActivityElements /\ UsageElements)
    /\ frame.area0 = NoWidget \/ IsReadStrip(frame.area0) \/ IsUsedStrip(frame.area0)
    /\ frame.area1 = NoWidget \/ IsWriteStrip(frame.area1)
    /\ (~stale /\ Activity) => ~UsageElements
    /\ (~stale /\ Usage) => ~ActivityElements

C7_Witness ==
    /\ ~stale
    /\ Activity
    /\ InRange
    /\ UsedWindow(SelectedDisk).some
    /\ IsReadStrip(frame.area0)
    /\ IsWriteStrip(frame.area1)
    /\ frame.columns0 = NoWidget

\* C8: UsageView draws iff the selected index is in range and the used-space
\* lookup for the selected device's name is present; it then draws the strip,
\* scaled to the device's size_bytes, and both text columns, all for the
\* selected device, and otherwise none of the three.
C8_UsageView ==
    (~stale /\ Usage) =>
        IF InRange /\ UsedWindow(SelectedDisk).some
        THEN /\ IsUsedStrip(frame.area0)
             /\ frame.area0.max = SelectedDisk.size_bytes
             /\ frame.area0.data = UsedWindow(SelectedDisk).value
             /\ frame.area0.title.name = SelectedDisk.name
             /\ frame.columns0.widget = "Paragraph"
             /\ frame.columns0.text[1][2] = SelectedDisk.name
             /\ frame.columns0.text[2][2] = SelectedDisk.file_system
             /\ frame.columns0.text[3][2] = SelectedDisk.mount_point
             /\ frame.columns1.widget = "Paragraph"
             /\ frame.columns1.text[1][2] = float_to_byte_string(SelectedDisk.size_bytes)
             /\ frame.columns1.text[2][2] =
                    float_to_byte_string(SelectedDisk.size_bytes - SelectedDisk.available_bytes)
             /\ frame.columns1.text[3][2] = float_to_byte_string(SelectedDisk.available_bytes)
        ELSE NoDetail

C8_Witness ==
    /\ ~stale
    /\ Usage
    /\ file_system_index = 1
    /\ Len(app.disks) = 2
    /\ app.disks[1].size_bytes # app.disks[2].size_bytes
    /\ UsedWindow(app.disks[2]) = Some(<<100, 200>>)
    /\ frame.area0.max = app.disks[2].size_bytes
    /\ frame.columns1.widget = "Paragraph"

\* C9: the read strip's label comes from the top reader's id alone and the
\* write strip's from the top writer's: the process's id, name and user when
\* the id is present and resolves, the empty string otherwise; the ids never
\* decide whether the strips are drawn.
C9_Attribution ==
    (~stale /\ Activity) =>
        /\ (ReadWindow.some /\ WriteWindow.some)
              <=> (IsReadStrip(frame.area0) /\ IsWriteStrip(frame.area1))
        /\ IsReadStrip(frame.area0) =>
              LabelOf(frame.area0.title.top, app.top_disk_reader_pid)
        /\ IsWriteStrip(frame.area1) =>
              LabelOf(frame.area1.title.top, app.top_disk_writer_pid)

C9_Witness ==
    /\ ~stale
    /\ Activity
    /\ app.top_disk_reader_pid = Some(42)
    /\ app.top_disk_writer_pid = Some(7)
    /\ IsReadStrip(frame.area0)
    /\ frame.area0.title.top[2] = 42
    /\ frame.area0.title.top[4] = "proc"
    /\ frame.area0.title.top[6] = "u"
    /\ frame.area1.title.top = <<>>

====
